---------------------------- MODULE Spec2Model ----------------------------
(*************************************************************************)
(* MeetingIntel backend: the brief endpoint (src/main.py) and the brief  *)
(* generator, its fallback and the company extraction                    *)
(* (src/research_service.py).                                            *)
(*                                                                       *)
(* Texts.  A Python str is a sequence of pieces.  Every character an     *)
(* operation of the program looks at (a backtick, the letters of the     *)
(* json tag, white space, JSON punctuation, a digit, the characters of   *)
(* an email) is a piece of its own; a run of characters that no          *)
(* operation looks inside (a key name, a fixed sentence of the source)   *)
(* is kept as one piece.  Offsets are as in Python: 0-based, -1 for "not  *)
(* found".                                                               *)
(*                                                                       *)
(* Values.  A Python value (the result of json.loads, a brief) is a      *)
(* record [t, v]: t is its type (dict, list, str, int, NoneType) and v   *)
(* its content (a function from keys to values, a sequence of values, a  *)
(* text, a number).                                                      *)
(*************************************************************************)
EXTENDS Integers, Sequences, FiniteSets, TLC

VARIABLES
    \* the server: one entry per request handled by generate_brief
    pc,          \* "idle" | "awaiting" (messages.create issued) | "done"
    request,     \* the validated BriefRequest
    calls,       \* number of client.messages.create calls issued for it
    upstream,    \* what the upstream call gave: a raise, or the reply text
    brief,       \* what generate_meeting_brief returned or raised
    response,    \* the HTTP response
    \* the reply handling of the generator, lines 101-128, on one reply
    epc, brief_text, json_text, outcome,
    \* extract_company_from_email on one email
    cpc, email, company

vars == <<pc, request, calls, upstream, brief, response,
          epc, brief_text, json_text, outcome, cpc, email, company>>

-----------------------------------------------------------------------------
(* Bounds *)

MaxPieces == 4       \* pieces of a reply text, for the reply handling
MaxEmailLen == 5     \* characters of an email, for the company extraction
MaxAttendees == 2    \* attendees of a request

-----------------------------------------------------------------------------
(* Python str operations *)

\* Two characters are spelled out, since the lexer of the tools gives the
\* characters themselves a meaning of its own.
Backtick == "BACKTICK"        \* character 96
Apostrophe == "APOSTROPHE"    \* character 39

RECURSIVE Concat(_)
Concat(ss) == IF ss = <<>> THEN <<>> ELSE Head(ss) \o Concat(Tail(ss))

\* text[i:i+len(pat)] == pat, i a 0-based offset
MatchAt(text, pat, i) ==
    /\ i >= 0
    /\ i + Len(pat) <= Len(text)
    /\ \A k \in 1..Len(pat) : text[i + k] = pat[k]

\* str.find(pat, start): the lowest offset >= start where pat occurs, or -1
RECURSIVE Find(_, _, _)
Find(text, pat, start) ==
    IF start + Len(pat) > Len(text) THEN -1
    ELSE IF MatchAt(text, pat, start) THEN start
    ELSE Find(text, pat, start + 1)

\* pat in text
Contains(text, pat) == Find(text, pat, 0) # -1

\* a slice bound as Python normalises it: a negative bound counts from the end
SliceIndex(text, i) ==
    IF i < 0 THEN (IF Len(text) + i < 0 THEN 0 ELSE Len(text) + i)
    ELSE IF i > Len(text) THEN Len(text) ELSE i

\* text[a:b]
Slice(text, a, b) == SubSeq(text, SliceIndex(text, a) + 1, SliceIndex(text, b))

\* text[a:]
SliceFrom(text, a) == SubSeq(text, SliceIndex(text, a) + 1, Len(text))

Whitespace == {" ", "\n"}

RECURSIVE LStrip(_)
LStrip(text) ==
    IF text # <<>> /\ Head(text) \in Whitespace THEN LStrip(Tail(text)) ELSE text

RECURSIVE RStrip(_)
RStrip(text) ==
    IF text # <<>> /\ text[Len(text)] \in Whitespace
    THEN RStrip(SubSeq(text, 1, Len(text) - 1)) ELSE text

\* str.strip()
Strip(text) == RStrip(LStrip(text))

\* str.split(sep): the segments between the occurrences of sep
RECURSIVE Split(_, _)
Split(text, sep) ==
    LET i == Find(text, <<sep>>, 0) IN
    IF i = -1 THEN <<text>>
    ELSE <<SubSeq(text, 1, i)>> \o Split(SubSeq(text, i + 2, Len(text)), sep)

\* the upper-case form of the letters an email of this model may start its
\* domain with
UpperOf == [c \in {"a", "b", "c", "e", "m"} |->
              CASE c = "a" -> "A" [] c = "b" -> "B" [] c = "c" -> "C"
                [] c = "e" -> "E" [] c = "m" -> "M"]

Upper(c) == IF c \in DOMAIN UpperOf THEN UpperOf[c] ELSE c

Lower(c) == IF \E l \in DOMAIN UpperOf : UpperOf[l] = c
            THEN CHOOSE l \in DOMAIN UpperOf : UpperOf[l] = c ELSE c

\* str.capitalize(): the first character upper-cased, the rest lower-cased
Capitalize(text) ==
    [i \in 1..Len(text) |-> IF i = 1 THEN Upper(text[i]) ELSE Lower(text[i])]

-----------------------------------------------------------------------------
(* Python values *)

PyStr(text) == [t |-> "str", v |-> text]
PyInt(n) == [t |-> "int", v |-> n]
PyList(vs) == [t |-> "list", v |-> vs]
PyDict(f) == [t |-> "dict", v |-> f]
None == [t |-> "NoneType", v |-> 0]

EmptyDict == PyDict(<<>>)

\* d[key] = val, d a dict
SetItem(d, key, val) ==
    PyDict([k \in DOMAIN d.v \cup {key} |-> IF k = key THEN val ELSE d.v[k]])

Keys(d) == DOMAIN d.v

\* an exception in flight, with str(e)
Raise(type, msg) == [t |-> "raise", v |-> <<type, msg>>]

Raised(x) == x.t = "raise"

-----------------------------------------------------------------------------
(* json.loads, on the JSON the replies of this model are written in:     *)
(* objects, arrays, strings without escapes, unsigned integers and null, *)
(* with white space between tokens.  A position is 1-based; a parse      *)
(* gives [ok, val, next], next the position after the value.             *)

Digits == {"0", "1", "2"}

DigitValue(c) == CASE c = "0" -> 0 [] c = "1" -> 1 [] c = "2" -> 2

ParseFail == [ok |-> FALSE, val |-> None, next |-> 0]

ParseOk(val, next) == [ok |-> TRUE, val |-> val, next |-> next]

RECURSIVE SkipWs(_, _)
SkipWs(text, p) ==
    IF p <= Len(text) /\ text[p] \in Whitespace THEN SkipWs(text, p + 1) ELSE p

\* the position of the quote closing the string whose content starts at p, or 0
RECURSIVE ClosingQuote(_, _)
ClosingQuote(text, p) ==
    IF p > Len(text) \/ text[p] = "\n" THEN 0
    ELSE IF text[p] = "\"" THEN p
    ELSE ClosingQuote(text, p + 1)

\* text[p] is the opening quote
ParseString(text, p) ==
    LET q == ClosingQuote(text, p + 1) IN
    IF q = 0 THEN ParseFail ELSE ParseOk(PyStr(SubSeq(text, p + 1, q - 1)), q + 1)

RECURSIVE ParseDigits(_, _, _)
ParseDigits(text, p, acc) ==
    IF p <= Len(text) /\ text[p] \in Digits
    THEN ParseDigits(text, p + 1, 10 * acc + DigitValue(text[p]))
    ELSE ParseOk(PyInt(acc), p)

\* text[p] is a digit; a number does not go on after a leading 0
ParseNumber(text, p) ==
    IF text[p] = "0" THEN ParseOk(PyInt(0), p + 1) ELSE ParseDigits(text, p, 0)

RECURSIVE ParseValue(_, _)
RECURSIVE ParseMembers(_, _, _)
RECURSIVE ParseElements(_, _, _)

\* the members of an object from position p on, d the members read so far
ParseMembers(text, p, d) ==
    LET k == SkipWs(text, p) IN
    IF k > Len(text) \/ text[k] # "\"" THEN ParseFail
    ELSE LET key == ParseString(text, k) IN
    IF ~key.ok THEN ParseFail
    ELSE LET c == SkipWs(text, key.next) IN
    IF c > Len(text) \/ text[c] # ":" THEN ParseFail
    ELSE LET val == ParseValue(text, c + 1) IN
    IF ~val.ok THEN ParseFail
    ELSE LET e == SkipWs(text, val.next)
             d2 == SetItem(d, key.val.v, val.val) IN
    IF e > Len(text) THEN ParseFail
    ELSE IF text[e] = "}" THEN ParseOk(d2, e + 1)
    ELSE IF text[e] = "," THEN ParseMembers(text, e + 1, d2)
    ELSE ParseFail

\* the elements of an array from position p on, vs the elements read so far
ParseElements(text, p, vs) ==
    LET val == ParseValue(text, p) IN
    IF ~val.ok THEN ParseFail
    ELSE LET e == SkipWs(text, val.next)
             vs2 == Append(vs, val.val) IN
    IF e > Len(text) THEN ParseFail
    ELSE IF text[e] = "]" THEN ParseOk(PyList(vs2), e + 1)
    ELSE IF text[e] = "," THEN ParseElements(text, e + 1, vs2)
    ELSE ParseFail

ParseValue(text, p) ==
    LET j == SkipWs(text, p) IN
    IF j > Len(text) THEN ParseFail
    ELSE IF text[j] = "{" THEN
        LET k == SkipWs(text, j + 1) IN
        IF k <= Len(text) /\ text[k] = "}" THEN ParseOk(EmptyDict, k + 1)
        ELSE ParseMembers(text, k, EmptyDict)
    ELSE IF text[j] = "[" THEN
        LET k == SkipWs(text, j + 1) IN
        IF k <= Len(text) /\ text[k] = "]" THEN ParseOk(PyList(<<>>), k + 1)
        ELSE ParseElements(text, k, <<>>)
    ELSE IF text[j] = "\"" THEN ParseString(text, j)
    ELSE IF text[j] \in Digits THEN ParseNumber(text, j)
    ELSE IF MatchAt(text, <<"n", "u", "l", "l">>, j - 1) THEN ParseOk(None, j + 4)
    ELSE ParseFail

\* json.loads(text): the value, or a raise (json.JSONDecodeError)
JsonLoads(text) ==
    LET r == ParseValue(text, 1) IN
    IF r.ok /\ SkipWs(text, r.next) > Len(text) THEN r.val
    ELSE Raise("JSONDecodeError", "invalid JSON")

-----------------------------------------------------------------------------
(* research_service.py: the company extraction and the fallback brief *)

Company == <<"C", "o", "m", "p", "a", "n", "y">>

\* extract_company_from_email: email.split("@")[1] raises IndexError when the
\* email has no "@", and the bare except turns that into "Company"
extract_company_from_email(e) ==
    LET parts == Split(e, "@") IN
    IF Len(parts) < 2 THEN Company
    ELSE LET domain == parts[2]
             comp == Split(domain, ".")[1]
         IN Capitalize(comp)

K(name) == <<name>>

\* a dict literal: the pairs <<key, value>> in order, a later one overriding
RECURSIVE DictOf(_)
DictOf(pairs) ==
    IF pairs = <<>> THEN EmptyDict
    ELSE SetItem(DictOf(SubSeq(pairs, 1, Len(pairs) - 1)),
                 pairs[Len(pairs)][1], pairs[Len(pairs)][2])

\* Variant of FallbackProfile with the name and the email exchanged; C6 must
\* tell it from the code.
FallbackProfileSwapped(a) ==
    DictOf(<< <<K("name"), PyStr(a.email)>>,
              <<K("email"), PyStr(a.name)>>,
              <<K("role"), PyStr(<<"Role not yet researched">>)>>,
              <<K("company"), PyStr(extract_company_from_email(a.email))>>,
              <<K("background"), PyStr(<<"Research in progress...">>)>>,
              <<K("recent_activity"), PyStr(<<>>)>>,
              <<K("key_fact"), PyStr(<<>>)>> >>)

\* one element of the "attendees" list of the fallback brief
FallbackProfile(a) ==
    DictOf(<< <<K("name"), PyStr(a.name)>>,
              <<K("email"), PyStr(a.email)>>,
              <<K("role"), PyStr(<<"Role not yet researched">>)>>,
              <<K("company"), PyStr(extract_company_from_email(a.email))>>,
              <<K("background"), PyStr(<<"Research in progress...">>)>>,
              <<K("recent_activity"), PyStr(<<>>)>>,
              <<K("key_fact"), PyStr(<<>>)>> >>)

ExcitedAbout == <<"I", Apostrophe, "m excited to learn more about ">>

FallbackStarters(company_name) ==
    PyList(<< PyStr(<<"Thank you for taking the time to meet today">>),
              PyStr(ExcitedAbout \o company_name),
              PyStr(<<"What are your top priorities for this quarter?">>) >>)

FallbackQuestions ==
    PyList(<< PyStr(<<"What challenges are you currently facing?">>),
              PyStr(<<"What does success look like for you?">>),
              PyStr(<<"How can we best support your goals?">>) >>)

FallbackStrategy ==
    PyStr(<<"Focus on building rapport, understanding their needs, and exploring potential collaboration opportunities.">>)

\* the dict literal of lines 135-160, company_name the company of the starter
FallbackDict(attendees, company_name, now) ==
    DictOf(<<
        <<K("attendees"),
          PyList([i \in 1..Len(attendees) |-> FallbackProfile(attendees[i])])>>,
        <<K("conversation_starters"), FallbackStarters(company_name)>>,
        <<K("questions_to_ask"), FallbackQuestions>>,
        <<K("strategy"), FallbackStrategy>>,
        <<K("generated_at"), PyStr(now)>> >>)

\* Variant of generate_fallback_brief that indexes attendees[1], the second
\* attendee; C2 must tell it from the code.
generate_fallback_brief_second(attendees, now) ==
    IF Len(attendees) < 2 THEN Raise("IndexError", <<"list index out of range">>)
    ELSE FallbackDict(attendees, extract_company_from_email(attendees[2].email), now)

\* Variant of generate_fallback_brief that guards the empty list; C9 must tell
\* it from the code.
generate_fallback_brief_guarded(attendees, now) ==
    IF attendees = <<>> THEN FallbackDict(attendees, Company, now)
    ELSE FallbackDict(attendees, extract_company_from_email(attendees[1].email), now)

\* generate_fallback_brief; now is datetime.now().isoformat().  attendees[0]
\* raises IndexError on an empty list.
generate_fallback_brief(attendees, now) ==
    IF attendees = <<>> THEN Raise("IndexError", <<"list index out of range">>)
    ELSE FallbackDict(attendees, extract_company_from_email(attendees[1].email), now)

-----------------------------------------------------------------------------
(* research_service.py: generate_meeting_brief *)

Fence == <<Backtick, Backtick, Backtick>>
JsonFence == Fence \o <<"j", "s", "o", "n">>

JsonFenceSkip == 7
FenceSkip == 3

\* Variant of ExtractJsonText that looks for an untagged fence first; C4 must
\* tell it from the code.
ExtractJsonTextUntaggedFirst(text) ==
    IF Contains(text, Fence) THEN
        LET json_start == Find(text, Fence, 0) + FenceSkip
            json_end == Find(text, Fence, json_start)
        IN Strip(Slice(text, json_start, json_end))
    ELSE Strip(text)

\* Variant of ExtractJsonText that takes the text to the end of the reply when
\* no closing fence follows; C10 must tell it from the code.
ExtractJsonTextToEnd(text) ==
    IF Contains(text, JsonFence) THEN
        LET json_start == Find(text, JsonFence, 0) + JsonFenceSkip
            json_end == Find(text, Fence, json_start)
        IN Strip(IF json_end = -1 THEN SliceFrom(text, json_start)
                 ELSE Slice(text, json_start, json_end))
    ELSE IF Contains(text, Fence) THEN
        LET json_start == Find(text, Fence, 0) + FenceSkip
            json_end == Find(text, Fence, json_start)
        IN Strip(IF json_end = -1 THEN SliceFrom(text, json_start)
                 ELSE Slice(text, json_start, json_end))
    ELSE Strip(text)

\* lines 110-120: the text handed to json.loads
ExtractJsonText(text) ==
    IF Contains(text, JsonFence) THEN
        LET json_start == Find(text, JsonFence, 0) + JsonFenceSkip
            json_end == Find(text, Fence, json_start)
        IN Strip(Slice(text, json_start, json_end))
    ELSE IF Contains(text, Fence) THEN
        LET json_start == Find(text, Fence, 0) + FenceSkip
            json_end == Find(text, Fence, json_start)
        IN Strip(Slice(text, json_start, json_end))
    ELSE Strip(text)

\* lines 101-105: the text blocks of the reply, concatenated in order
RECURSIVE BriefText(_)
BriefText(content) ==
    IF content = <<>> THEN <<>>
    ELSE (IF Head(content).type = "text" THEN Head(content).text ELSE <<>>)
         \o BriefText(Tail(content))

\* Variant of BriefFromJsonText that accepts only a JSON object with the keys
\* of a brief; C8 must tell it from the code.
BriefFromJsonTextChecked(text, attendees, now) ==
    LET brief_data == JsonLoads(text) IN
    IF \/ Raised(brief_data)
       \/ brief_data.t # "dict"
       \/ ~({K("attendees"), K("strategy")} \subseteq Keys(brief_data))
    THEN generate_fallback_brief(attendees, now)
    ELSE brief_data

\* lines 122-128: the parsed value, or the fallback brief when json.loads raises
BriefFromJsonText(text, attendees, now) ==
    LET brief_data == JsonLoads(text) IN
    IF Raised(brief_data) THEN generate_fallback_brief(attendees, now)
    ELSE brief_data

\* lines 107-128 on the reply text
BriefFromText(text, attendees, now) ==
    BriefFromJsonText(ExtractJsonText(text), attendees, now)

\* what client.messages.create gave: it raised, or a reply with its content
UpstreamRaise == [kind |-> "raise", content |-> <<>>]
UpstreamReply(content) == [kind |-> "reply", content |-> content]

\* generate_meeting_brief, from the result of its one upstream call on: what it
\* returns, or the exception that leaves it (raised in the except handler)
generate_meeting_brief(attendees, up, now) ==
    IF up.kind = "raise" THEN generate_fallback_brief(attendees, now)
    ELSE BriefFromText(BriefText(up.content), attendees, now)

-----------------------------------------------------------------------------
(* main.py: generate_brief *)

ErrorPrefix == <<"Error generating brief: ">>

\* HTTPException(status_code=500, detail=...) as FastAPI answers it
HttpError(msg) ==
    [status |-> 500,
     body |-> DictOf(<< <<K("detail"), PyStr(ErrorPrefix \o msg)>> >>)]

\* the answer to an exception that no handler of the application catches
InternalServerError ==
    [status |-> 500, body |-> PyStr(<<"Internal Server Error">>)]

IsListOf(x, type) ==
    x.t = "list" /\ \A i \in 1..Len(x.v) : x.v[i].t = type

\* the fields of BriefResponse, lines 31-37
BriefResponseFields ==
    {K("meeting_id"), K("attendees"), K("conversation_starters"),
     K("questions_to_ask"), K("strategy"), K("generated_at")}

\* response_model=BriefResponse: the returned dict validates
ValidBriefResponse(d) ==
    /\ BriefResponseFields \subseteq Keys(d)
    /\ d.v[K("meeting_id")].t = "str"
    /\ IsListOf(d.v[K("attendees")], "dict")
    /\ IsListOf(d.v[K("conversation_starters")], "str")
    /\ IsListOf(d.v[K("questions_to_ask")], "str")
    /\ d.v[K("strategy")].t = "str"
    /\ d.v[K("generated_at")].t = "str"

\* the body FastAPI sends: the fields of the response model
Serialize(d) == PyDict([k \in BriefResponseFields |-> d.v[k]])

\* str(e) of the TypeError of brief["meeting_id"] = ... on a value of type t
ItemAssignmentError(t) ==
    IF t = "list" THEN <<"list indices must be integers or slices, not str">>
    ELSE <<Apostrophe, t, Apostrophe, " object does not support item assignment">>

\* lines 60-69 and the response model of line 47, on what the generator gave
Respond(meeting_id, result) ==
    IF Raised(result) THEN HttpError(result.v[2])
    ELSE IF result.t # "dict" THEN HttpError(ItemAssignmentError(result.t))
    ELSE LET stamped == SetItem(result, K("meeting_id"), PyStr(meeting_id)) IN
         IF ValidBriefResponse(stamped)
         THEN [status |-> 200, body |-> Serialize(stamped)]
         ELSE InternalServerError

-----------------------------------------------------------------------------
(* The inputs *)

Q(name) == <<"\"", name, "\"">>

\* a@acme.io, and an email without "@"
AcmeEmail == <<"a", "@", "a", "c", "m", "e", ".", "i", "o">>
BobEmail == <<"b", "o", "b">>

AttendeePool ==
    {[email |-> AcmeEmail, name |-> <<"A">>], [email |-> BobEmail, name |-> <<"B">>]}

AttendeeLists == UNION {[1..n -> AttendeePool] : n \in 0..MaxAttendees}

MeetingIds == {<<"m1">>, <<"m2">>}

\* the validated bodies of POST /api/generate-brief
BriefRequests ==
    [meeting_id : MeetingIds, meeting_title : {<<"Sync">>},
     meeting_time : {<<"2025-01-01T10:00">>}, attendees : AttendeeLists]

\* values of datetime.now().isoformat()
Times == {<<"2025-01-01T09:00:00">>, <<"2025-01-01T09:00:01">>}

\* JSON documents a model may write
BriefMembers ==
    Q("attendees") \o <<":", "[", "{">> \o Q("name") \o <<":">> \o Q("A")
        \o <<"}", "]", ",", "\n">>
    \o Q("conversation_starters") \o <<":", "[">> \o Q("hello") \o <<"]", ",", " ">>
    \o Q("questions_to_ask") \o <<":", "[", "]", ",">>
    \o Q("strategy") \o <<":">> \o Q("listen") \o <<",">>
    \o Q("generated_at") \o <<":">> \o Q("2024-12-31T00:00:00")

FullDoc == <<"{">> \o BriefMembers \o <<"}">>
OwnIdDoc == <<"{">> \o Q("meeting_id") \o <<":">> \o Q("other") \o <<",">>
            \o BriefMembers \o <<"}">>
ExtraDoc == <<"{">> \o BriefMembers \o <<",">> \o Q("confidence") \o <<":", "1", "}">>
MissingDoc == <<"{">> \o Q("strategy") \o <<":">> \o Q("listen") \o <<"}">>
ListDoc == <<"[", "1", ",", " ", "2", "]">>
IntDoc == <<"1", "2">>
NullDoc == <<"n", "u", "l", "l">>
StrDoc == Q("hello")
TruncatedDoc == <<"{">> \o Q("attendees") \o <<":">>

TextBlock(text) == [type |-> "text", text |-> text]
SearchBlock == [type |-> "server_tool_use", text |-> <<>>]

\* the content of the replies of the upstream model
Replies == {
    <<TextBlock(JsonFence \o <<"\n">> \o FullDoc \o <<"\n">> \o Fence)>>,
    <<TextBlock(<<" ", "\n">> \o FullDoc \o <<"\n">>)>>,
    <<TextBlock(<<"Here is the brief:", "\n">> \o Fence), SearchBlock,
      TextBlock(OwnIdDoc \o Fence \o <<"\n", "Good luck!">>)>>,
    <<TextBlock(MissingDoc)>>,
    <<TextBlock(Fence \o <<"x">> \o Fence \o <<"\n">> \o JsonFence \o ExtraDoc
                \o Fence)>>,
    <<TextBlock(ListDoc)>>,
    <<TextBlock(Fence \o IntDoc \o Fence)>>,
    <<TextBlock(NullDoc)>>,
    <<TextBlock(StrDoc)>>,
    <<TextBlock(TruncatedDoc)>>,
    <<TextBlock(JsonFence \o FullDoc)>>,
    <<SearchBlock>> }

-----------------------------------------------------------------------------
(* The server: requests handled by generate_brief.  The handler runs to  *)
(* its upstream call; the result of the call lets it run to its end.     *)

Requests == {"r1", "r2"}

NoRequest == [meeting_id |-> <<>>, meeting_title |-> <<>>, meeting_time |-> <<>>,
              attendees |-> <<>>]
NoUpstream == [kind |-> "none", content |-> <<>>]
NoResponse == [status |-> 0, body |-> None]

ServerIdle ==
    /\ pc = [r \in Requests |-> "idle"]
    /\ request = [r \in Requests |-> NoRequest]
    /\ calls = [r \in Requests |-> 0]
    /\ upstream = [r \in Requests |-> NoUpstream]
    /\ brief = [r \in Requests |-> None]
    /\ response = [r \in Requests |-> NoResponse]

ExtractIdle ==
    /\ epc = "idle" /\ brief_text = <<>> /\ json_text = <<>> /\ outcome = None

CompanyIdle ==
    /\ cpc = "idle" /\ email = <<>> /\ company = <<>>

serverVars == <<pc, request, calls, upstream, brief, response>>
extractVars == <<epc, brief_text, json_text, outcome>>
companyVars == <<cpc, email, company>>

\* main.py lines 48-58 and research_service.py lines 24-99: the request is
\* received and the handler issues client.messages.create
Receive(r) ==
    /\ pc[r] = "idle"
    /\ \E req \in BriefRequests : request' = [request EXCEPT ![r] = req]
    /\ calls' = [calls EXCEPT ![r] = @ + 1]
    /\ pc' = [pc EXCEPT ![r] = "awaiting"]
    /\ UNCHANGED <<upstream, brief, response, extractVars, companyVars>>

Upstreams == {UpstreamRaise} \cup {UpstreamReply(content) : content \in Replies}

\* a function as a table: its values are computed once, not at every use
Tabulate(f) == f @@ <<>>

\* generate_meeting_brief on every input of the model
GeneratorResult ==
    Tabulate([a \in AttendeeLists, up \in Upstreams, now \in Times |->
                generate_meeting_brief(a, up, now)])

\* generate_brief on every input of the model
EndpointResponse ==
    Tabulate([id \in MeetingIds, a \in AttendeeLists, up \in Upstreams,
              now \in Times |-> Respond(id, GeneratorResult[a, up, now])])

\* the rest of the handler, once the upstream call has given up
Finish(r, up, now) ==
    /\ upstream' = [upstream EXCEPT ![r] = up]
    /\ brief' = [brief EXCEPT ![r] = GeneratorResult[request[r].attendees, up, now]]
    /\ response' = [response EXCEPT ![r] =
           EndpointResponse[request[r].meeting_id, request[r].attendees, up, now]]
    /\ pc' = [pc EXCEPT ![r] = "done"]
    /\ UNCHANGED <<request, calls, extractVars, companyVars>>

\* Variant of UpstreamFails that calls the model again after a failure; C7 must
\* tell it from the code.
UpstreamFailsRetry(r) ==
    /\ pc[r] = "awaiting"
    /\ calls[r] < 3
    /\ calls' = [calls EXCEPT ![r] = @ + 1]
    /\ UNCHANGED <<pc, request, upstream, brief, response, extractVars, companyVars>>

\* client.messages.create raises (network, auth, provider error)
UpstreamFails(r) ==
    /\ pc[r] = "awaiting"
    /\ \E now \in Times : Finish(r, UpstreamRaise, now)

\* client.messages.create returns a reply
UpstreamReplies(r) ==
    /\ pc[r] = "awaiting"
    /\ \E content \in Replies, now \in Times : Finish(r, UpstreamReply(content), now)

Init == ServerIdle /\ ExtractIdle /\ CompanyIdle

Next ==
    \E r \in Requests : Receive(r) \/ UpstreamFails(r) \/ UpstreamReplies(r)

Spec == Init /\ [][Next]_vars

-----------------------------------------------------------------------------
(* The reply handling of generate_meeting_brief as a function of the     *)
(* reply text: every text of at most MaxPieces of the pieces below.      *)

ReplyPieces ==
    {JsonFence, Fence, <<Backtick>>, <<" ">>, <<"{">>, <<"}">>, <<"1">>}

ReplyTexts ==
    {Concat(ps) : ps \in UNION {[1..n -> ReplyPieces] : n \in 0..MaxPieces}}

\* the attendees of the request whose reply is handled
ExtractAttendees == <<[email |-> AcmeEmail, name |-> <<"A">>]>>

InitExtract ==
    /\ ServerIdle /\ CompanyIdle
    /\ epc = "reply" /\ brief_text \in ReplyTexts
    /\ json_text = <<>> /\ outcome = None

\* lines 110-120
ExtractText ==
    /\ epc = "reply"
    /\ json_text' = ExtractJsonText(brief_text)
    /\ epc' = "extracted"
    /\ UNCHANGED <<brief_text, outcome, serverVars, companyVars>>

\* lines 122-128
LoadJson ==
    /\ epc = "extracted"
    /\ \E now \in Times :
          outcome' = BriefFromJsonText(json_text, ExtractAttendees, now)
    /\ epc' = "returned"
    /\ UNCHANGED <<brief_text, json_text, serverVars, companyVars>>

NextExtract == ExtractText \/ LoadJson

SpecExtract == InitExtract /\ [][NextExtract]_vars

-----------------------------------------------------------------------------
(* extract_company_from_email as a function of the email: every email of *)
(* at most MaxEmailLen of the characters below.                          *)

EmailChars == {"a", "B", "@", "."}

Emails == UNION {[1..n -> EmailChars] : n \in 0..MaxEmailLen}

InitCompany ==
    /\ ServerIdle /\ ExtractIdle
    /\ cpc = "called" /\ email \in Emails /\ company = <<>>

ExtractCompany ==
    /\ cpc = "called"
    /\ company' = extract_company_from_email(email)
    /\ cpc' = "returned"
    /\ UNCHANGED <<email, serverVars, extractVars>>

NextCompany == ExtractCompany

SpecCompany == InitCompany /\ [][NextCompany]_vars

-----------------------------------------------------------------------------
(* Properties of the server, under Spec *)

\* json.loads of the extracted text of every reply of the model
ParsedReply ==
    Tabulate([content \in Replies |-> JsonLoads(ExtractJsonText(BriefText(content)))])

Done(r) == pc[r] = "done"

\* the upstream call failed, or the text extracted from the reply is not JSON
Degraded(r) ==
    \/ upstream[r].kind = "raise"
    \/ upstream[r].kind = "reply" /\ Raised(ParsedReply[upstream[r].content])

\* the extracted text of the reply parsed
Parsed(r) ==
    upstream[r].kind = "reply" /\ ~Raised(ParsedReply[upstream[r].content])

RepliedWith(r, doc) ==
    Done(r) /\ upstream[r] = UpstreamReply(<<TextBlock(doc)>>)

FallbackKeys ==
    {K("attendees"), K("conversation_starters"), K("questions_to_ask"),
     K("strategy"), K("generated_at")}

\* C1: for every request with at least one attendee and every outcome of the
\* generator, the response carries the meeting_id of the request.
C1_MeetingIdEchoed ==
    \A r \in Requests :
        (Done(r) /\ request[r].attendees # <<>>) =>
            /\ response[r].body.t = "dict"
            /\ K("meeting_id") \in Keys(response[r].body)
            /\ response[r].body.v[K("meeting_id")] = PyStr(request[r].meeting_id)

\* C2: with at least one attendee, a failed upstream call or an unparseable
\* reply makes generate_meeting_brief return (not raise) the fallback brief,
\* with all five top-level keys and one profile per attendee, and the HTTP
\* caller gets a 200 whose body carries those keys.
C2_DegradesToFallback ==
    \A r \in Requests :
        (Done(r) /\ request[r].attendees # <<>> /\ Degraded(r)) =>
            /\ ~Raised(brief[r])
            /\ brief[r].t = "dict"
            /\ Keys(brief[r]) = FallbackKeys
            /\ brief[r].v[K("generated_at")].v \in Times
            /\ Len(brief[r].v[K("attendees")].v) = Len(request[r].attendees)
            /\ response[r].status = 200
            /\ response[r].body.t = "dict"
            /\ FallbackKeys \subseteq Keys(response[r].body)
            /\ \A k \in FallbackKeys : response[r].body.v[k] = brief[r].v[k]

\* C2 happens: one request whose upstream call raised and one whose reply is
\* the truncated document, each with an attendee, both answered 200.
C2_Witness ==
    /\ Done("r1") /\ upstream["r1"] = UpstreamRaise
    /\ request["r1"].attendees # <<>> /\ response["r1"].status = 200
    /\ RepliedWith("r2", TruncatedDoc)
    /\ request["r2"].attendees # <<>> /\ response["r2"].status = 200

\* C3: a request that is not answered with the brief is answered with HTTP 500
\* whose body is {detail: "Error generating brief: " + message}.
C3_FailuresCarryDetail ==
    \A r \in Requests :
        (Done(r) /\ response[r].status # 200) =>
            /\ response[r].status = 500
            /\ response[r].body.t = "dict"
            /\ Keys(response[r].body) = {K("detail")}
            /\ response[r].body.v[K("detail")].t = "str"
            /\ SubSeq(response[r].body.v[K("detail")].v, 1, 1) = ErrorPrefix

\* C7: a request that reached the generator has issued exactly one upstream
\* call, also after a failed call or an unparseable reply; a request not yet
\* received has issued none and has no response; and the result and the response
\* of a request are those of its own input and its own upstream result.
C7_OneCallOwnData ==
    \A r \in Requests :
        /\ calls[r] = (IF pc[r] = "idle" THEN 0 ELSE 1)
        /\ ~Done(r) => (response[r] = NoResponse /\ brief[r] = None)
        /\ pc[r] = "idle" => (request[r] = NoRequest /\ upstream[r] = NoUpstream)
        /\ Done(r) =>
              /\ upstream[r] \in Upstreams
              /\ \E now \in Times :
                    /\ brief[r] = GeneratorResult[request[r].attendees, upstream[r], now]
                    /\ response[r] = EndpointResponse[request[r].meeting_id,
                                         request[r].attendees, upstream[r], now]

\* C7 happens: two requests with different inputs in flight together, one
\* answered after a failed call while the other still awaits its reply.
C7_Witness ==
    /\ Done("r1") /\ upstream["r1"] = UpstreamRaise /\ calls["r1"] = 1
    /\ pc["r2"] = "awaiting" /\ calls["r2"] = 1
    /\ request["r1"].meeting_id # request["r2"].meeting_id
    /\ request["r1"].attendees # request["r2"].attendees

\* C8: whenever the extracted text parses, generate_meeting_brief returns the
\* parsed value itself, of whatever shape, and not the fallback brief.
C8_ParsedReturnedVerbatim ==
    \A r \in Requests :
        (Done(r) /\ Parsed(r)) =>
            /\ brief[r] = ParsedReply[upstream[r].content]
            /\ \A now \in Times :
                  brief[r] # GeneratorResult[request[r].attendees, UpstreamRaise, now]
            /\ RepliedWith(r, ListDoc) => brief[r] = PyList(<<PyInt(1), PyInt(2)>>)
            /\ RepliedWith(r, Fence \o IntDoc \o Fence) => brief[r] = PyInt(12)
            /\ RepliedWith(r, NullDoc) => brief[r] = None
            /\ RepliedWith(r, StrDoc) => brief[r] = PyStr(<<"hello">>)
            /\ RepliedWith(r, MissingDoc) =>
                  brief[r] = PyDict(K("strategy") :> PyStr(<<"listen">>))
            /\ RepliedWith(r, JsonFence \o <<"\n">> \o FullDoc \o <<"\n">> \o Fence) =>
                  (Keys(brief[r]) = FallbackKeys
                   /\ brief[r].v[K("strategy")] = PyStr(<<"listen">>))

\* C8 happens: a reply that is a JSON list and one that lacks keys were
\* returned as they are.
C8_Witness ==
    /\ RepliedWith("r1", ListDoc) /\ brief["r1"].t = "list"
    /\ RepliedWith("r2", MissingDoc) /\ Keys(brief["r2"]) = {K("strategy")}

\* the response to the IndexError of attendees[0]
IndexErrorResponse ==
    [status |-> 500,
     body |-> PyDict(K("detail") :>
                PyStr(<<"Error generating brief: ", "list index out of range">>))]

\* C9: with an empty attendee list, a failed call or an unparseable reply makes
\* the fallback raise IndexError out of generate_meeting_brief and the endpoint
\* answer 500; a 200 is given only when the reply parsed.
C9_EmptyListFallbackRaises ==
    \A r \in Requests :
        (Done(r) /\ request[r].attendees = <<>>) =>
            /\ Degraded(r) =>
                  /\ brief[r] = Raise("IndexError", <<"list index out of range">>)
                  /\ response[r] = IndexErrorResponse
            /\ response[r].status = 200 => Parsed(r)

\* C9 happens: a request without attendees whose reply was the truncated
\* document was answered 500, and one whose reply parsed was answered 200.
C9_Witness ==
    /\ RepliedWith("r1", TruncatedDoc) /\ request["r1"].attendees = <<>>
    /\ response["r1"].status = 500
    /\ Done("r2") /\ request["r2"].attendees = <<>> /\ response["r2"].status = 200

\* the company of each email of the model, as the claims state it
ExpectedCompany(e) ==
    IF e = AcmeEmail THEN <<"A", "c", "m", "e">> ELSE Company

\* the brief of request r is the fallback brief
FellBack(r) == Done(r) /\ Degraded(r) /\ request[r].attendees # <<>>

\* C6: the fallback brief has one profile per attendee, in order, with the name,
\* email and company of that attendee; three conversation starters, the second
\* naming the company of the first attendee; three questions; and two fallback
\* briefs of the same list agree on every field but generated_at.
C6_FallbackShape ==
    \A r \in Requests :
        FellBack(r) =>
            LET b == brief[r].v
                as == request[r].attendees
            IN  /\ b[K("attendees")].t = "list"
                /\ Len(b[K("attendees")].v) = Len(as)
                /\ \A i \in 1..Len(as) :
                      LET prof == b[K("attendees")].v[i].v IN
                      /\ prof[K("name")] = PyStr(as[i].name)
                      /\ prof[K("email")] = PyStr(as[i].email)
                      /\ prof[K("company")] = PyStr(ExpectedCompany(as[i].email))
                /\ Len(b[K("conversation_starters")].v) = 3
                /\ b[K("conversation_starters")].v[2] =
                      PyStr(ExcitedAbout \o ExpectedCompany(as[1].email))
                /\ Len(b[K("questions_to_ask")].v) = 3
                /\ \A q \in Requests :
                      (FellBack(q) /\ request[q].attendees = as) =>
                          \A k \in FallbackKeys \ {K("generated_at")} :
                              brief[q].v[k] = b[k]

\* C6 happens: two fallback briefs of the same list of two different attendees,
\* generated at different times.
C6_Witness ==
    /\ FellBack("r1") /\ FellBack("r2")
    /\ request["r1"].attendees = request["r2"].attendees
    /\ Len(request["r1"].attendees) = 2
    /\ request["r1"].attendees[1].email = BobEmail
    /\ request["r1"].attendees[2].email = AcmeEmail
    /\ brief["r1"].v[K("generated_at")] # brief["r2"].v[K("generated_at")]

-----------------------------------------------------------------------------
(* Properties of the reply handling, under SpecExtract *)

\* the offsets at which pat occurs in text
Occurrences(text, pat) ==
    {i \in 0..(Len(text) - Len(pat)) : MatchAt(text, pat, i)}

Least(S) == CHOOSE i \in S : \A j \in S : i <= j
Greatest(S) == CHOOSE i \in S : \A j \in S : i >= j

\* text without the white space at its two ends
Trimmed(text) ==
    LET solid == {i \in 1..Len(text) : text[i] \notin Whitespace} IN
    IF solid = {} THEN <<>> ELSE SubSeq(text, Least(solid), Greatest(solid))

\* the opening fence of a reply: the first tagged one if there is any, else the
\* first fence; from is the position of the first character after it
OpeningFence(text) ==
    IF Occurrences(text, JsonFence) # {}
    THEN [found |-> TRUE, from |-> Least(Occurrences(text, JsonFence)) + Len(JsonFence) + 1]
    ELSE IF Occurrences(text, Fence) # {}
    THEN [found |-> TRUE, from |-> Least(Occurrences(text, Fence)) + Len(Fence) + 1]
    ELSE [found |-> FALSE, from |-> 1]

\* the offsets of the fence markers that follow the opening fence
ClosingFences(text) ==
    {i \in Occurrences(text, Fence) : i + 1 >= OpeningFence(text).from}

\* C4: with a tagged fence anywhere in the reply the extracted text is the text
\* between the first tagged fence and the next marker, whatever untagged fences
\* the reply holds; without a tagged fence, the text between the first fence and
\* the next marker; without a fence, the whole reply; trimmed in each case.
C4_FencePrecedence ==
    epc # "reply" =>
        LET open == OpeningFence(brief_text)
            closing == ClosingFences(brief_text)
        IN  /\ ~open.found => json_text = Trimmed(brief_text)
            /\ (open.found /\ closing # {}) =>
                  json_text = Trimmed(SubSeq(brief_text, open.from, Least(closing)))
            /\ json_text = Trimmed(json_text)

\* C4 happens: an untagged fence, then a tagged block holding 1; the tagged
\* block was extracted.
C4_Witness ==
    /\ epc = "extracted"
    /\ brief_text = Fence \o JsonFence \o <<"1">> \o Fence
    /\ json_text = <<"1">>

\* C10: with an opening fence and no marker after it, the extracted text is the
\* text after the opening fence less the last character of the reply, trimmed;
\* a reply that is a tagged fence and then a complete JSON object ending the
\* reply gives the fallback brief.
C10_NoClosingFenceDropsLastChar ==
    LET open == OpeningFence(brief_text)
        rest == SubSeq(brief_text, open.from, Len(brief_text))
    IN  /\ (epc # "reply" /\ open.found /\ ClosingFences(brief_text) = {}) =>
              json_text = Trimmed(SubSeq(brief_text, open.from, Len(brief_text) - 1))
        /\ ( /\ epc = "returned"
             /\ MatchAt(brief_text, JsonFence, 0)
             /\ ClosingFences(brief_text) = {}
             /\ JsonLoads(rest).t = "dict"
             /\ brief_text[Len(brief_text)] = "}" ) =>
              /\ Keys(outcome) = FallbackKeys
              /\ outcome.v[K("strategy")] = FallbackStrategy

\* C10 happens: the reply is a tagged fence and {} with no closing fence; the
\* text handed to json.loads was {, and the fallback brief was returned.
C10_Witness ==
    /\ epc = "returned"
    /\ brief_text = JsonFence \o <<"{", "}">>
    /\ json_text = <<"{">>
    /\ Keys(outcome) = FallbackKeys

-----------------------------------------------------------------------------
(* Properties of the company extraction, under SpecCompany *)

\* text with its first letter upper-cased
CapFirst(text) ==
    [i \in 1..Len(text) |-> IF i = 1 THEN Upper(text[i]) ELSE text[i]]

\* the company as C5 states it
ClaimedCompany(e) ==
    LET ats == Occurrences(e, <<"@">>) IN
    IF ats = {} THEN Company
    ELSE LET at == Least(ats)
             after == SubSeq(e, at + 2, Len(e))
             dots == {i \in Occurrences(e, <<".">>) : i > at}
         IN IF after = <<>> THEN Company
            ELSE IF dots = {} THEN CapFirst(after)
            ELSE CapFirst(SubSeq(e, at + 2, Least(dots)))

\* C5: extract_company_from_email gives the text between the first "@" and the
\* first following ".", its first letter capitalized, and "Company" when the
\* email has no "@" or nothing after it.
C5_CompanyRule ==
    cpc = "returned" => company = ClaimedCompany(email)

=============================================================================
